---------------------------- MODULE Spec2Model ----------------------------
(***************************************************************************)
(* Model of newProcess3.py: the route loader (load_routes), the route      *)
(* reducer (gather_molecules_and_reaction_count), the hypergraph assembler *)
(* (build_hypergraph_per_route) and the driver (main, save_csvs).          *)
(*                                                                         *)
(* Python strings are sequences of code points, so that sorting, trimming  *)
(* and formatting are computed and not assumed.  A JSON value read through *)
(* dict.get is a tagged value: missing (None), a string, or anything else. *)
(***************************************************************************)
EXTENDS Integers, Sequences, FiniteSets, TLC

VARIABLES
    pc,        \* position of the running function
    tree,      \* reducer: the route handed to gather_molecules_and_reaction_count
    stack,     \* reducer: the call stack of dfs, one frame per active call
    mols,      \* reducer: the closure variable mols
    rxn_cnt,   \* reducer: the closure variable rxn_cnt
    visits,    \* reducer: the nodes dfs was called on, in call order (history)
    routes,    \* the sequence of routes handed to build_hypergraph_per_route
    runs,      \* assembler: the calls made so far, each with its input and result
    raw,       \* the input text, a sequence of tokens
    docs,      \* the mapping each one-line object of the text parses to
    loaded,    \* loader: what load_routes returned or raised
    result,    \* main: what build_hypergraph_per_route returned
    files      \* main: the state of each of the four artifacts

reducerVars == <<tree, stack, mols, rxn_cnt, visits>>
assemblerVars == <<routes, runs>>
loaderVars == <<raw, docs, loaded>>
mainVars == <<result, files>>

vars == <<pc, reducerVars, assemblerVars, loaderVars, mainVars>>

----------------------------------------------------------------------------
(* Bounds of the model.                                                    *)

\* Largest number of nodes (mapping or not) of a route tree of the reducer.
MaxNodes == 3

\* Largest number of routes handed to the assembler.
MaxRoutes == 2

\* Number of tokens up to which every input text of the loader is tried.
MaxText == 4

----------------------------------------------------------------------------
(* Strings and dict.get values.                                            *)

Range(q) == {q[i] : i \in DOMAIN q}

\* str.isspace: the code points str.strip() removes.
WhiteSpace == {9, 10, 11, 12, 13, 28, 29, 30, 31, 32, 133, 160}

sEmpty == <<>>
sBlank == <<32>>                 \* " "
sCC    == <<67, 67>>             \* "CC"
sCCO   == <<67, 67, 79>>         \* "CCO"
sP1    == <<80, 49>>             \* "P1"
sP1pad == <<32, 80, 49, 32>>     \* " P1 "
sH     == <<72>>                 \* "H", used on reaction nodes only

None      == [tag |-> "none", s |-> <<>>]
NonStr    == [tag |-> "other", s |-> <<>>]
Str(s)    == [tag |-> "str", s |-> s]

\* isinstance(v, str) and v
IsNonEmptyStr(v) == v.tag = "str" /\ v.s # <<>>

----------------------------------------------------------------------------
(* Route trees.                                                            *)

\* A JSON value standing where a node is expected.  isdict is isinstance(node,
\* dict); a non-mapping value may still hold nodes (a JSON array), kept in
\* children.  type is node.get("type"): "mol", "reaction", "other" (any other
\* value) or "none" (no such key).
Node(isdict, type, smiles, name, metadata, children) ==
    [isdict |-> isdict, type |-> type, smiles |-> smiles, name |-> name,
     metadata |-> metadata, children |-> children]

RECURSIVE NodeAt(_, _)
NodeAt(t, path) ==
    IF path = <<>> THEN t ELSE NodeAt(t.children[Head(path)], Tail(path))

RECURSIVE Paths(_)
\* Every position of the tree, as the sequence of child indexes leading to it.
Paths(t) ==
    {<<>>} \cup UNION {{<<i>> \o p : p \in Paths(t.children[i])} :
                          i \in DOMAIN t.children}

Prefix(p, k) == SubSeq(p, 1, k)

\* The positions dfs can reach: every proper ancestor is a mapping.
Reachable(t) ==
    {p \in Paths(t) : \A k \in 0..(Len(p) - 1) : NodeAt(t, Prefix(p, k)).isdict}

----------------------------------------------------------------------------
(* The parts of the state a run of one function alone leaves unused.       *)

NoTree == Node(FALSE, "none", None, None, None, <<>>)
NoResult == [top |-> <<>>, bot |-> <<>>, id_to_mol |-> <<>>, routes_meta |-> <<>>]
NoLoad == [status |-> "pending", routes |-> <<>>]
Artifacts == {"bundle", "nodes", "edges", "incidence"}

ReducerIdle ==
    tree = NoTree /\ stack = <<>> /\ mols = {} /\ rxn_cnt = 0 /\ visits = <<>>
AssemblerIdle == routes = <<>> /\ runs = <<>>
LoaderIdle == raw = <<>> /\ docs = <<>> /\ loaded = NoLoad
MainIdle == result = NoResult /\ files = [a \in Artifacts |-> "absent"]

----------------------------------------------------------------------------
(* gather_molecules_and_reaction_count, as the recursive function it is.   *)

RECURSIVE GatherSeq(_, _)
RECURSIVE dfs(_, _)

\* A dfs that also takes the smiles of a reaction node.
DfsReadsReaction(node, acc) ==
    IF ~node.isdict THEN acc
    ELSE IF node.type \in {"mol", "reaction"} THEN
        GatherSeq(node.children,
                  [mols |-> IF IsNonEmptyStr(node.smiles)
                            THEN acc.mols \cup {node.smiles.s} ELSE acc.mols,
                   rxn_cnt |-> IF node.type = "reaction"
                               THEN acc.rxn_cnt + 1 ELSE acc.rxn_cnt])
    ELSE GatherSeq(node.children, acc)

\* dfs(node) applied to the closure state acc = [mols, rxn_cnt].
dfs(node, acc) ==
    IF ~node.isdict THEN acc
    ELSE IF node.type = "mol" THEN
        GatherSeq(node.children,
                  IF IsNonEmptyStr(node.smiles)
                  THEN [acc EXCEPT !.mols = @ \cup {node.smiles.s}]
                  ELSE acc)
    ELSE IF node.type = "reaction" THEN
        GatherSeq(node.children, [acc EXCEPT !.rxn_cnt = @ + 1])
    ELSE GatherSeq(node.children, acc)

\* for ch in (node.get("children") or []): dfs(ch)
GatherSeq(children, acc) ==
    IF children = <<>> THEN acc
    ELSE GatherSeq(Tail(children), dfs(Head(children), acc))

gather_molecules_and_reaction_count(route) ==
    dfs(route, [mols |-> {}, rxn_cnt |-> 0])

----------------------------------------------------------------------------
(* The reducer run step by step: one action per call of and return from    *)
(* dfs.                                                                    *)

\* A reducer that takes any string smiles, the empty one included.
EnterMolsAnyString(node, m) ==
    IF node.isdict /\ node.type = "mol" /\ node.smiles.tag = "str"
    THEN m \cup {node.smiles.s} ELSE m

\* What dfs does on entry to the node at path, before its loop over children.
EnterMols(node, m) ==
    IF node.isdict /\ node.type = "mol" /\ IsNonEmptyStr(node.smiles)
    THEN m \cup {node.smiles.s} ELSE m

EnterCount(node, c) ==
    IF node.isdict /\ node.type = "reaction" THEN c + 1 ELSE c

\* A reducer without the isinstance(node, dict) guard.
DescendsAlways(node) == TRUE

\* Whether dfs goes on to loop over the node's children.
Descends(node) == node.isdict

DfsEnter(path, stk) ==
    LET node == NodeAt(tree, path) IN
    /\ visits' = Append(visits, path)
    /\ mols' = EnterMols(node, mols)
    /\ rxn_cnt' = EnterCount(node, rxn_cnt)
    /\ stack' = IF Descends(node)
                THEN Append(stk, [path |-> path, next |-> 1])
                ELSE stk

\* dfs(route)
GatherStart ==
    /\ pc = "start"
    /\ pc' = "dfs"
    /\ DfsEnter(<<>>, stack)
    /\ UNCHANGED <<tree, assemblerVars, loaderVars, mainVars>>

\* for ch in children: dfs(ch) -- the next iteration of the innermost loop
DfsChild ==
    /\ pc = "dfs"
    /\ stack # <<>>
    /\ LET top == stack[Len(stack)]
           node == NodeAt(tree, top.path)
       IN /\ top.next <= Len(node.children)
          /\ DfsEnter(top.path \o <<top.next>>,
                      [stack EXCEPT ![Len(stack)].next = @ + 1])
    /\ UNCHANGED <<pc, tree, assemblerVars, loaderVars, mainVars>>

\* the innermost loop is exhausted: dfs returns to its caller
DfsReturn ==
    /\ pc = "dfs"
    /\ stack # <<>>
    /\ LET top == stack[Len(stack)]
           node == NodeAt(tree, top.path)
       IN top.next > Len(node.children)
    /\ stack' = SubSeq(stack, 1, Len(stack) - 1)
    /\ UNCHANGED <<pc, tree, mols, rxn_cnt, visits, assemblerVars, loaderVars, mainVars>>

\* return mols, rxn_cnt
GatherReturn ==
    /\ pc = "dfs"
    /\ stack = <<>>
    /\ pc' = "done"
    /\ UNCHANGED <<reducerVars, assemblerVars, loaderVars, mainVars>>

----------------------------------------------------------------------------
(* Inputs of the reducer: every tree of at most MaxNodes values whose      *)
(* mappings carry one of the labels below.                                 *)

MolLabels ==
    {[type |-> "mol", smiles |-> v] :
        v \in {None, NonStr, Str(sEmpty), Str(sBlank), Str(sCC), Str(sCCO)}}

ReduceLabels ==
    MolLabels \cup
    {[type |-> "reaction", smiles |-> None],
     [type |-> "reaction", smiles |-> Str(sH)],
     [type |-> "other", smiles |-> Str(sCC)],
     [type |-> "none", smiles |-> Str(sCC)]}

\* A JSON array standing where a node is expected.
ArrayLabel == [type |-> "array", smiles |-> None]

\* The shapes of the ordered trees of n nodes numbered in preorder: p[i] is
\* the parent of node i, 0 for the root, and the parent of node i is node
\* i - 1 or one of its ancestors.
RECURSIVE OnPathToRoot(_, _, _)
OnPathToRoot(p, a, i) == a = i \/ (i > 1 /\ OnPathToRoot(p, a, p[i]))

Shapes(n) ==
    {p \in [1..n -> 0..(n - 1)] :
        /\ p[1] = 0
        /\ \A i \in 2..n : p[i] >= 1 /\ OnPathToRoot(p, p[i], i - 1)}

RECURSIVE TreeOf(_, _, _)
RECURSIVE ChildrenFrom(_, _, _, _)

\* The node i of the shape p with the labels lab, and the subtree below it.
TreeOf(p, lab, i) ==
    IF lab[i] = ArrayLabel
    THEN Node(FALSE, "none", None, None, None, ChildrenFrom(p, lab, i, i + 1))
    ELSE Node(TRUE, lab[i].type, lab[i].smiles, None, None, ChildrenFrom(p, lab, i, i + 1))

\* The children of node i among the nodes j, j + 1, ... in order.
ChildrenFrom(p, lab, i, j) ==
    IF j > Len(p) THEN <<>>
    ELSE (IF p[j] = i THEN <<TreeOf(p, lab, j)>> ELSE <<>>)
         \o ChildrenFrom(p, lab, i, j + 1)

ReduceInit ==
    /\ pc = "start"
    /\ \E n \in 1..MaxNodes :
          \E p \in Shapes(n) :
              \E lab \in [1..n -> ReduceLabels \cup {ArrayLabel}] :
                  /\ lab[1] # ArrayLabel
                  /\ tree = TreeOf(p, lab, 1)
    /\ stack = <<>>
    /\ mols = {}
    /\ rxn_cnt = 0
    /\ visits = <<>>
    /\ AssemblerIdle /\ LoaderIdle /\ MainIdle

ReduceNext == GatherStart \/ DfsChild \/ DfsReturn \/ GatherReturn

\* The interpreter runs the call to completion: a step that can be taken is.
SpecReduce == ReduceInit /\ [][ReduceNext]_vars /\ WF_vars(ReduceNext)

----------------------------------------------------------------------------
(* String operations the assembler uses.                                   *)

RECURSIVE LStrip(_)
LStrip(s) == IF s # <<>> /\ Head(s) \in WhiteSpace THEN LStrip(Tail(s)) ELSE s

RECURSIVE RStrip(_)
RStrip(s) ==
    IF s # <<>> /\ s[Len(s)] \in WhiteSpace
    THEN RStrip(SubSeq(s, 1, Len(s) - 1)) ELSE s

\* str.strip()
Strip(s) == RStrip(LStrip(s))

\* a < b for Python strings: code point order, a proper prefix first.
StrLess(a, b) ==
    \E k \in 1..Len(b) :
        /\ k - 1 <= Len(a)
        /\ \A j \in 1..(k - 1) : a[j] = b[j]
        /\ (k = Len(a) + 1 \/ (k <= Len(a) /\ a[k] < b[k]))

RECURSIVE SortedDescending(_)
\* sorted(S, reverse=True)
SortedDescending(S) ==
    IF S = {} THEN <<>>
    ELSE LET m == CHOOSE x \in S : \A y \in S \ {x} : StrLess(y, x)
         IN <<m>> \o SortedDescending(S \ {m})

RECURSIVE Sorted(_)
\* sorted(S) for a set of strings
Sorted(S) ==
    IF S = {} THEN <<>>
    ELSE LET m == CHOOSE x \in S : \A y \in S \ {x} : StrLess(x, y)
         IN <<m>> \o Sorted(S \ {m})

RECURSIVE Decimal(_)
\* str(n) for n >= 0
Decimal(n) ==
    IF n < 10 THEN <<48 + n>> ELSE Decimal(n \div 10) \o <<48 + (n % 10)>>

\* f"route_{edge_id}"
RouteName(edge_id) == <<114, 111, 117, 116, 101, 95>> \o Decimal(edge_id)

----------------------------------------------------------------------------
(* build_hypergraph_per_route.                                             *)

\* route_mols_list and route_rxn_counts
route_mols_list(rs) == [i \in DOMAIN rs |-> gather_molecules_and_reaction_count(rs[i]).mols]
route_rxn_counts(rs) == [i \in DOMAIN rs |-> gather_molecules_and_reaction_count(rs[i]).rxn_cnt]

all_mols(rs) == UNION {route_mols_list(rs)[i] : i \in DOMAIN rs}

\* id_to_mol = sorted(all_mols); position k of the sequence holds node id k - 1.
id_to_mol(rs) == Sorted(all_mols(rs))

\* mol_to_id = {s: i for i, s in enumerate(id_to_mol)}
mol_to_id(table) ==
    [s \in Range(table) |-> (CHOOSE i \in DOMAIN table : table[i] = s) - 1]

\* A naming that does not ask for the root to be a mol.
RootNameAnyType(route) ==
    IF route.isdict
    THEN IF route.name.tag = "str" /\ Strip(route.name.s) # <<>>
         THEN Str(Strip(route.name.s))
         ELSE IF IsNonEmptyStr(route.smiles) THEN Str(route.smiles.s) ELSE None
    ELSE None

\* The name taken from the root before the fallback: None when there is none.
RootName(route) ==
    IF route.isdict /\ route.type = "mol"
    THEN IF route.name.tag = "str" /\ Strip(route.name.s) # <<>>
         THEN Str(Strip(route.name.s))
         ELSE IF IsNonEmptyStr(route.smiles) THEN Str(route.smiles.s) ELSE None
    ELSE None

\* edge_name after "if not edge_name: edge_name = f'route_{edge_id}'"
EdgeName(route, edge_id) ==
    IF RootName(route).tag = "none" \/ RootName(route).s = <<>>
    THEN RouteName(edge_id)
    ELSE RootName(route).s

\* target_smiles
target_smiles(route) ==
    IF route.isdict /\ route.type = "mol" /\ IsNonEmptyStr(route.smiles)
    THEN route.smiles.s ELSE <<>>

\* Metadata numbering the edges from one.
RouteMetaOneBased(route, edge_id, rc) ==
    [edge_id |-> edge_id + 1, edge_name |-> EdgeName(route, edge_id),
     target |-> target_smiles(route), reaction_count |-> rc]

\* routes_meta.append({...})
RouteMeta(route, edge_id, rc) ==
    [edge_id |-> edge_id, edge_name |-> EdgeName(route, edge_id),
     target |-> target_smiles(route), reaction_count |-> rc]

\* The orders in which "for smi in mols" can yield a set of strings: the order
\* of a set of str follows the strings' hashes, which differ from one
\* interpreter process to the next.
IterationsOf(S) == {q \in [1..Cardinality(S) -> S] : Range(q) = S}

\* An incidence loop over all_mols instead of the route's own set.
IterOrdersAllMols(rs) == [DOMAIN rs -> IterationsOf(all_mols(rs))]

\* One iteration order for each route's molecule set.
IterOrders(rs) ==
    {f \in [DOMAIN rs -> UNION {IterationsOf(route_mols_list(rs)[i]) : i \in DOMAIN rs}] :
        \A i \in DOMAIN rs : f[i] \in IterationsOf(route_mols_list(rs)[i])}

RECURSIVE TopOf(_, _, _)
\* top after the first n routes: the node ids appended route by route
TopOf(rs, iter, n) ==
    IF n = 0 THEN <<>>
    ELSE TopOf(rs, iter, n - 1)
         \o [k \in DOMAIN iter[n] |-> mol_to_id(id_to_mol(rs))[iter[n][k]]]

RECURSIVE BotOf(_, _, _)
\* bot after the first n routes: the edge id, once per appended node id
BotOf(rs, iter, n) ==
    IF n = 0 THEN <<>>
    ELSE BotOf(rs, iter, n - 1) \o [k \in DOMAIN iter[n] |-> n - 1]

\* What build_hypergraph_per_route(rs) returns when the molecule set of route
\* i is iterated in the order iter[i].
build_hypergraph_per_route(rs, iter) ==
    [top |-> TopOf(rs, iter, Len(rs)),
     bot |-> BotOf(rs, iter, Len(rs)),
     id_to_mol |-> id_to_mol(rs),
     routes_meta |-> [i \in DOMAIN rs |-> RouteMeta(rs[i], i - 1, route_rxn_counts(rs)[i])]]

----------------------------------------------------------------------------
(* Claims about the reducer.                                               *)

IsMolWithId(node) ==
    node.isdict /\ node.type = "mol" /\ node.smiles.tag = "str" /\ node.smiles.s # <<>>

ExpectedMols(t) ==
    {NodeAt(t, p).smiles.s : p \in {q \in Reachable(t) : IsMolWithId(NodeAt(t, q))}}

ExpectedReactions(t) ==
    Cardinality({p \in Reachable(t) :
                    NodeAt(t, p).isdict /\ NodeAt(t, p).type = "reaction"})

TimesVisited(p) == Cardinality({i \in DOMAIN visits : visits[i] = p})

ReducerResultExact ==
    pc = "done" =>
        /\ Range(visits) = Reachable(tree)
        /\ \A p \in Reachable(tree) : TimesVisited(p) = 1
        /\ mols = ExpectedMols(tree)
        /\ rxn_cnt = ExpectedReactions(tree)

\* C9: on every finite route tree the reducer terminates, having called dfs
\* exactly once on each node reachable from the root through the children of
\* mappings and on no other, and returns exactly the non-empty string smiles of
\* the reachable mol nodes and exactly the number of reachable reaction nodes.
C9_ReducerTerminatesExact == []ReducerResultExact /\ <>(pc = "done")

\* A finished run over mol -> reaction -> mol with two distinct identifiers.
C9_Witness ==
    /\ pc = "done"
    /\ rxn_cnt = 1
    /\ Cardinality(mols) = 2
    /\ tree.type = "mol"
    /\ Len(tree.children) = 1
    /\ tree.children[1].type = "reaction"
    /\ Len(visits) = 3

IsBlankStr(v) == v.tag = "str" /\ \A i \in DOMAIN v.s : v.s[i] \in WhiteSpace

\* smiles is absent, not a string, or the empty string
NoIdentifier(node) ==
    node.isdict /\ node.type = "mol" /\ (node.smiles.tag # "str" \/ node.smiles.s = <<>>)

\* smiles is absent, not a string, empty, or made of white space only
NoIdentifierOrBlank(node) ==
    node.isdict /\ node.type = "mol" /\ (node.smiles.tag # "str" \/ IsBlankStr(node.smiles))

\* The step is a call of dfs on a node satisfying skip: it leaves mols alone
\* and opens the loop over the node's children.
SkipStep(skip(_)) ==
    (Len(visits') = Len(visits) + 1 /\ skip(NodeAt(tree, visits'[Len(visits')])))
        => /\ mols' = mols
           /\ stack' # <<>>
           /\ stack'[Len(stack')] = [path |-> visits'[Len(visits')], next |-> 1]

\* At the end, every child of a visited node satisfying skip was visited.
SkipChildrenVisited(skip(_)) ==
    pc = "done" =>
        \A p \in Range(visits) :
            skip(NodeAt(tree, p)) =>
                \A i \in DOMAIN NodeAt(tree, p).children :
                    (p \o <<i>>) \in Range(visits)

\* C8 (as amended): a mol node whose smiles is absent, not a string or empty
\* adds nothing to the molecule set, and its children are still traversed.
C8_SkipsMissingIdentifier ==
    [][SkipStep(NoIdentifier)]_vars /\ []SkipChildrenVisited(NoIdentifier)

\* C8 (as claimed): the same also for a smiles made of white space only.
C8_SkipsBlankIdentifier ==
    [][SkipStep(NoIdentifierOrBlank)]_vars /\ []SkipChildrenVisited(NoIdentifierOrBlank)

\* A finished run whose root carries no identifier and whose child does.
C8_Witness ==
    /\ pc = "done"
    /\ NoIdentifier(tree)
    /\ tree.children # <<>>
    /\ mols # {}
    /\ Len(visits) > 1

----------------------------------------------------------------------------
(* Runs of the assembler: twice on the same routes (two runs of the        *)
(* program on one input), then once on the routes with the identifier-like *)
(* fields of every reaction node replaced.                                 *)

sC      == <<67>>                \* "C"
sRoute0 == RouteName(0)          \* "route_0", as a name stored in the input

Label(type, smiles, name, metadata) ==
    [type |-> type, smiles |-> smiles, name |-> name, metadata |-> metadata]

Labelled(l, children) == Node(TRUE, l.type, l.smiles, l.name, l.metadata, children)

RootLabels ==
    {Label("mol", Str(sCCO), Str(sP1), None),
     Label("mol", Str(sCC), Str(sP1pad), None),
     Label("mol", Str(sCCO), Str(sBlank), None),
     Label("mol", None, None, None),
     Label("mol", Str(sEmpty), NonStr, None),
     Label("mol", Str(sBlank), None, None),
     Label("reaction", Str(sH), Str(sRoute0), Str(sH)),
     Label("other", Str(sCC), Str(sP1), None)}

\* The two routes of the worked example: a named product made in one step
\* from CC, and a route whose root is a reaction.
RouteA ==
    Labelled(Label("mol", Str(sCCO), Str(sP1), None),
        <<Labelled(Label("reaction", Str(sH), None, None),
            <<Labelled(Label("mol", Str(sCC), None, None), <<>>)>>)>>)

RouteB ==
    Labelled(Label("reaction", None, None, None),
        <<Labelled(Label("mol", Str(sCC), None, None), <<>>)>>)

\* A route of reaction nodes only.
RouteReactionsOnly ==
    Labelled(Label("reaction", Str(sCC), Str(sP1), None),
        <<Labelled(Label("reaction", None, None, None), <<>>)>>)

\* The routes the assembler is run on: every root label alone, the routes
\* above, and roots with one child that bears a name, a second identifier, the
\* root's own identifier, or a reaction's payload.
AssemblerRoutes ==
    {Labelled(l, <<>>) : l \in RootLabels}
    \cup {RouteA, RouteB, RouteReactionsOnly}
    \cup {Labelled(Label("mol", Str(sCC), Str(sP1pad), None),
              <<Labelled(Label("reaction", Str(sH), Str(sP1), Str(sCCO)), <<>>)>>),
          Labelled(Label("mol", Str(sCCO), Str(sBlank), None),
              <<Labelled(Label("mol", Str(sCC), Str(sP1), None), <<>>)>>),
          Labelled(Label("mol", None, None, None),
              <<Labelled(Label("mol", Str(sC), None, None), <<>>)>>),
          Labelled(Label("other", Str(sCC), Str(sP1), None),
              <<Labelled(Label("mol", Str(sCC), Str(sP1), None), <<>>)>>),
          Labelled(Label("mol", Str(sCCO), Str(sP1), None),
              <<Labelled(Label("mol", Str(sCCO), None, None), <<>>)>>)}

\* Values written over the smiles, name and metadata of reaction nodes.
ReactionPayloads ==
    {[smiles |-> None, name |-> None, metadata |-> None],
     [smiles |-> Str(sCCO), name |-> Str(sP1), metadata |-> Str(sCC)],
     [smiles |-> Str(sEmpty), name |-> NonStr, metadata |-> Str(sH)]}

RECURSIVE Rewrite(_, _)
\* The tree with v written over the identifier-like fields of every reaction
\* node; types and children are kept.
Rewrite(t, v) ==
    LET kids == [i \in DOMAIN t.children |-> Rewrite(t.children[i], v)]
    IN IF t.isdict /\ t.type = "reaction"
       THEN Node(TRUE, t.type, v.smiles, v.name, v.metadata, kids)
       ELSE Node(t.isdict, t.type, t.smiles, t.name, t.metadata, kids)

RewriteAll(rs, v) == [i \in DOMAIN rs |-> Rewrite(rs[i], v)]

AssembleInit ==
    /\ pc = "assemble"
    /\ \E n \in 1..MaxRoutes : routes \in [1..n -> AssemblerRoutes]
    /\ runs = <<>>
    /\ ReducerIdle /\ LoaderIdle /\ MainIdle

\* build_hypergraph_per_route(routes), in a process of its own
Assemble ==
    /\ pc = "assemble"
    /\ Len(runs) < 2
    /\ \E iter \in IterOrders(routes) :
          runs' = Append(runs, [input |-> routes,
                                out |-> build_hypergraph_per_route(routes, iter)])
    /\ UNCHANGED <<pc, routes, reducerVars, loaderVars, mainVars>>

\* build_hypergraph_per_route on the routes with rewritten reaction nodes
AssembleRewritten ==
    /\ pc = "assemble"
    /\ Len(runs) = 2
    /\ \E v \in ReactionPayloads :
          \E iter \in IterOrders(RewriteAll(routes, v)) :
              runs' = Append(runs,
                  [input |-> RewriteAll(routes, v),
                   out |-> build_hypergraph_per_route(RewriteAll(routes, v), iter)])
    /\ pc' = "assembled"
    /\ UNCHANGED <<routes, reducerVars, loaderVars, mainVars>>

AssembleNext == Assemble \/ AssembleRewritten

SpecAssemble == AssembleInit /\ [][AssembleNext]_vars

----------------------------------------------------------------------------
(* Claims about the assembler.                                             *)

\* The pairs of an incidence list, as a set.
PairSet(out) == {<<out.top[k], out.bot[k]>> : k \in DOMAIN out.top}

\* The identifier a node id stands for.
MolOf(out, id) == out.id_to_mol[id + 1]

StrictlyAscending(table) ==
    \A i \in DOMAIN table : \A j \in DOMAIN table : i < j => StrLess(table[i], table[j])

IdTableExact(rs, out) ==
    /\ Range(out.id_to_mol) = UNION {ExpectedMols(rs[i]) : i \in DOMAIN rs}
    /\ StrictlyAscending(out.id_to_mol)
    /\ \A i \in DOMAIN out.id_to_mol : \A j \in DOMAIN out.id_to_mol :
          out.id_to_mol[i] = out.id_to_mol[j] => i = j
    /\ \A k \in DOMAIN out.top :
          /\ out.top[k] \in 0..(Len(out.id_to_mol) - 1)
          /\ MolOf(out, out.top[k]) \in ExpectedMols(rs[out.bot[k] + 1])
    /\ \A s \in Range(out.id_to_mol) :
          Cardinality({id \in 0..(Len(out.id_to_mol) - 1) : MolOf(out, id) = s}) = 1

\* C1: the identifier table is the union of the routes' molecule sets, without
\* duplicates, in strictly ascending code point order, and the ids the
\* incidence list uses are the zero-based positions in it: one id per
\* identifier, however many routes or nodes carry the identifier.
C1_IdTableSortedUnion ==
    \A r \in DOMAIN runs : IdTableExact(runs[r].input, runs[r].out)

\* The worked example: CC occurs in both routes and has the one id 0.
C1_Witness ==
    /\ runs # <<>>
    /\ runs[1].input = <<RouteA, RouteB>>
    /\ runs[1].out.id_to_mol = <<sCC, sCCO>>
    /\ PairSet(runs[1].out) = {<<0, 0>>, <<1, 0>>, <<0, 1>>}

IncidenceExact(rs, out) ==
    /\ Len(out.top) = Len(out.bot)
    /\ \A k \in DOMAIN out.bot : out.bot[k] \in 0..(Len(rs) - 1)
    /\ \A i \in DOMAIN rs :
          {MolOf(out, out.top[k]) : k \in {j \in DOMAIN out.top : out.bot[j] = i - 1}}
              = ExpectedMols(rs[i])
    /\ \A k \in DOMAIN out.top : \A j \in DOMAIN out.top :
          (out.top[k] = out.top[j] /\ out.bot[k] = out.bot[j]) => k = j

\* C2: the node ids paired with edge id i are exactly the ids of the molecule
\* set of the route at position i, each pair occurs once, and the two
\* incidence sequences have the same length.
C2_IncidenceIsRouteSet ==
    \A r \in DOMAIN runs : IncidenceExact(runs[r].input, runs[r].out)

\* Two routes sharing one identifier, the first with a second identifier twice.
C2_Witness ==
    /\ runs # <<>>
    /\ Len(runs[1].input) = 2
    /\ ExpectedMols(runs[1].input[1]) = {sCC, sCCO}
    /\ ExpectedMols(runs[1].input[2]) = {sCC}
    /\ Len(runs[1].out.top) = 3

\* The strings held by the identifier-like fields of the reaction nodes of the
\* tree (onReaction) or of its other nodes (~onReaction).
RECURSIVE FieldStrings(_, _)
FieldStrings(t, onReaction) ==
    (IF t.isdict /\ ((t.type = "reaction") = onReaction)
     THEN {v.s : v \in {w \in {t.smiles, t.name, t.metadata} : w.tag = "str"}}
     ELSE {})
    \cup UNION {FieldStrings(t.children[i], onReaction) : i \in DOMAIN t.children}

\* The strings stored on reaction nodes of the routes and on no other node:
\* those found in the input text at reaction nodes only.
ReactionOnlyStrings(rs) ==
    UNION {FieldStrings(rs[i], TRUE) : i \in DOMAIN rs}
    \ UNION {FieldStrings(rs[i], FALSE) : i \in DOMAIN rs}

SameOutput(a, b) ==
    /\ a.id_to_mol = b.id_to_mol
    /\ PairSet(a) = PairSet(b)
    /\ a.routes_meta = b.routes_meta

\* The third run's input is the first run's with other values on its reaction
\* nodes: the outputs agree.
ReactionFieldsDoNotInterfere ==
    Len(runs) = 3 => SameOutput(runs[1].out, runs[3].out)

\* No string stored on reaction nodes only is in the output.
NoReactionOnlyString(rs, out) ==
    \A s \in ReactionOnlyStrings(rs) :
        /\ s \notin Range(out.id_to_mol)
        /\ \A i \in DOMAIN out.routes_meta :
              out.routes_meta[i].edge_name # s /\ out.routes_meta[i].target # s

\* No non-empty string stored on reaction nodes only is in the identifier
\* table or a target, and every edge name is the trimmed name or the smiles of
\* a mol root, or the synthetic name.
OutputFromMolNodes(rs, out) ==
    /\ \A s \in ReactionOnlyStrings(rs) \ {<<>>} :
          /\ s \notin Range(out.id_to_mol)
          /\ \A i \in DOMAIN out.routes_meta : out.routes_meta[i].target # s
    /\ \A i \in DOMAIN out.routes_meta :
          /\ \/ out.routes_meta[i].edge_name = RouteName(i - 1)
             \/ /\ rs[i].type = "mol"
                /\ \/ rs[i].name.tag = "str" /\ out.routes_meta[i].edge_name = Strip(rs[i].name.s)
                   \/ rs[i].smiles.tag = "str" /\ out.routes_meta[i].edge_name = rs[i].smiles.s
          /\ \/ out.routes_meta[i].target = <<>>
             \/ rs[i].type = "mol" /\ rs[i].smiles.tag = "str"
                   /\ out.routes_meta[i].target = rs[i].smiles.s

\* C3 (as amended): inputs that differ only in the smiles, name and metadata
\* of reaction nodes give the same identifier table, incidence pairs and
\* metadata; no non-empty string stored on reaction nodes only is in the
\* identifier table or a target, and every edge name is the trimmed name or
\* the smiles of a mol root, or the synthetic route_<i>.
C3_ReactionOpacity ==
    /\ ReactionFieldsDoNotInterfere
    /\ \A r \in DOMAIN runs : OutputFromMolNodes(runs[r].input, runs[r].out)

\* C3 (as claimed): the outputs agree, and no string stored on reaction nodes
\* only is in the identifier table, an edge name or a target.
C3_NoReactionStringAppears ==
    /\ ReactionFieldsDoNotInterfere
    /\ \A r \in DOMAIN runs : NoReactionOnlyString(runs[r].input, runs[r].out)

\* The rewritten run of the worked example: H is gone from the reaction node,
\* CCO and P1 are on it, and the output is that of the first run.
C3_Witness ==
    /\ Len(runs) = 3
    /\ runs[1].input = <<RouteA, RouteB>>
    /\ runs[3].input # runs[1].input
    /\ sH \in ReactionOnlyStrings(runs[1].input)
    /\ runs[3].out.id_to_mol = <<sCC, sCCO>>

\* C4: two runs on the same input give the same output, the incidence list
\* as an ordered sequence included.
C4_Deterministic ==
    Len(runs) >= 2 => (runs[1].input = runs[2].input => runs[1].out = runs[2].out)

UsableName(route) ==
    route.type = "mol" /\ route.name.tag = "str" /\ ~IsBlankStr(route.name)

UsableSmiles(route) ==
    route.type = "mol" /\ route.smiles.tag = "str" /\ route.smiles.s # <<>>

\* The naming policy, with named(route) the name taken from a usable name field.
NamingPolicy(rs, out, named(_)) ==
    \A i \in DOMAIN rs :
        /\ out.routes_meta[i].edge_name =
              IF UsableName(rs[i]) THEN named(rs[i])
              ELSE IF UsableSmiles(rs[i]) THEN rs[i].smiles.s
              ELSE RouteName(i - 1)
        /\ out.routes_meta[i].target =
              IF UsableSmiles(rs[i]) THEN rs[i].smiles.s ELSE <<>>

NameField(route) == route.name.s
TrimmedNameField(route) == Strip(route.name.s)

\* C5 (as amended): the edge name is the root's name with the white space at
\* both ends removed when the root is a mol with a non-blank string name, else
\* the root's smiles when the root is a mol with a non-empty string smiles,
\* else route_<i>; the target is that smiles or the empty string.
C5_EdgeNamingTrimmed ==
    \A r \in DOMAIN runs : NamingPolicy(runs[r].input, runs[r].out, TrimmedNameField)

\* C5 (as claimed): the same, the edge name being the root's name field itself.
C5_EdgeNamingNameField ==
    \A r \in DOMAIN runs : NamingPolicy(runs[r].input, runs[r].out, NameField)

\* A root named " P1 " beside a root that is a reaction: the names are P1 and
\* route_1.
C5_Witness ==
    /\ runs # <<>>
    /\ Len(runs[1].input) = 2
    /\ runs[1].input[1].name = Str(sP1pad)
    /\ runs[1].input[2].type = "reaction"
    /\ runs[1].out.routes_meta[1].edge_name = sP1
    /\ runs[1].out.routes_meta[2].edge_name = RouteName(1)
    /\ runs[1].out.routes_meta[2].target = <<>>

MetadataExact(rs, out) ==
    /\ Len(out.routes_meta) = Len(rs)
    /\ \A i \in DOMAIN rs :
          /\ out.routes_meta[i].edge_id = i - 1
          /\ out.routes_meta[i].reaction_count = ExpectedReactions(rs[i])
          /\ ExpectedMols(rs[i]) = {} =>
                ~\E k \in DOMAIN out.bot : out.bot[k] = i - 1

\* C6: the metadata list has one entry per route, in input order, with the
\* route's zero-based position as edge id and the number of its reaction nodes
\* as reaction count; a route without molecules has an entry and no pair.
C6_OneMetadataEntryPerRoute ==
    \A r \in DOMAIN runs : MetadataExact(runs[r].input, runs[r].out)

\* A route of two reaction nodes after a route with molecules.
C6_Witness ==
    /\ runs # <<>>
    /\ Len(runs[1].input) = 2
    /\ runs[1].input[2] = RouteReactionsOnly
    /\ runs[1].out.routes_meta[2].reaction_count = 2
    /\ runs[1].out.routes_meta[2].edge_id = 1
    /\ runs[1].out.top # <<>>
    /\ \A k \in DOMAIN runs[1].out.bot : runs[1].out.bot[k] = 0

----------------------------------------------------------------------------
(* load_routes.  The text is a sequence of tokens: "D1" and "D2" are two    *)
(* different JSON objects each written on one line, "{" and "}" the braces  *)
(* of an object written without members (possibly over several lines), "["  *)
(* "," "]" the syntax of arrays, "N" a digit and "NL" the newline.          *)

Tokens == {"D1", "D2", "{", "}", "[", ",", "]", "N", "NL"}

IsSpaceToken(t) == t = "NL"

RECURSIVE LStripText(_)
LStripText(t) ==
    IF t # <<>> /\ IsSpaceToken(Head(t)) THEN LStripText(Tail(t)) ELSE t

RECURSIVE RStripText(_)
RStripText(t) ==
    IF t # <<>> /\ IsSpaceToken(t[Len(t)])
    THEN RStripText(SubSeq(t, 1, Len(t) - 1)) ELSE t

\* p.read_text().strip()
StripText(t) == RStripText(LStripText(t))

\* Parsed JSON values: an object (id 1, 2 for D1, D2 and 0 for {}), an array of
\* values, or a number.
JDict(id)     == [k |-> "dict", id |-> id, items |-> <<>>]
JList(items)  == [k |-> "list", id |-> 0, items |-> items]
JNum          == [k |-> "num", id |-> 0, items |-> <<>>]

\* The result of parsing a prefix of a text: ok, the value, the text left.
Parsed(v, rest) == [ok |-> TRUE, val |-> v, rest |-> rest]
ParseFail == [ok |-> FALSE, val |-> JNum, rest |-> <<>>]

RECURSIVE DropDigits(_)
\* The text after the digits at its head: adjacent digits are one number.
DropDigits(t) == IF t # <<>> /\ Head(t) = "N" THEN DropDigits(Tail(t)) ELSE t

RECURSIVE ParseValue(_)
RECURSIVE ParseItems(_, _)

\* One JSON value at the head of the text, white space before it skipped.
ParseValue(t) ==
    LET u == LStripText(t) IN
    IF u = <<>> THEN ParseFail
    ELSE CASE Head(u) = "D1" -> Parsed(JDict(1), Tail(u))
           [] Head(u) = "D2" -> Parsed(JDict(2), Tail(u))
           [] Head(u) = "N"  -> Parsed(JNum, DropDigits(Tail(u)))
           [] Head(u) = "{"  ->
                 LET w == LStripText(Tail(u)) IN
                 IF w # <<>> /\ Head(w) = "}"
                 THEN Parsed(JDict(0), Tail(w)) ELSE ParseFail
           [] Head(u) = "["  ->
                 LET w == LStripText(Tail(u)) IN
                 IF w # <<>> /\ Head(w) = "]"
                 THEN Parsed(JList(<<>>), Tail(w))
                 ELSE ParseItems(w, <<>>)
           [] OTHER -> ParseFail

\* The elements of an array after "[" or ",", up to and including "]".
ParseItems(t, acc) ==
    LET e == ParseValue(t) IN
    IF ~e.ok THEN ParseFail
    ELSE LET w == LStripText(e.rest) IN
         IF w = <<>> THEN ParseFail
         ELSE IF Head(w) = "]" THEN Parsed(JList(Append(acc, e.val)), Tail(w))
         ELSE IF Head(w) = "," THEN ParseItems(Tail(w), Append(acc, e.val))
         ELSE ParseFail

\* json.loads(text): one value and nothing but white space after it.
JsonLoads(t) ==
    LET e == ParseValue(t) IN
    IF e.ok /\ LStripText(e.rest) = <<>> THEN [ok |-> TRUE, val |-> e.val]
    ELSE [ok |-> FALSE, val |-> JNum]

RECURSIVE SplitLines(_, _, _)
\* str.splitlines(): the text cut at each newline, no empty last line.
SplitLines(t, cur, acc) ==
    IF t = <<>> THEN (IF cur = <<>> THEN acc ELSE Append(acc, cur))
    ELSE IF Head(t) = "NL" THEN SplitLines(Tail(t), <<>>, Append(acc, cur))
    ELSE SplitLines(Tail(t), Append(cur, Head(t)), acc)

RECURSIVE SelectDicts(_)
\* [x for x in data if isinstance(x, dict)]
SelectDicts(q) ==
    IF q = <<>> THEN <<>>
    ELSE (IF Head(q).k = "dict" THEN <<Head(q)>> ELSE <<>>) \o SelectDicts(Tail(q))

RECURSIVE NonBlank(_)
\* [line for line in lines if line.strip()]
NonBlank(lines) ==
    IF lines = <<>> THEN <<>>
    ELSE (IF StripText(Head(lines)) # <<>> THEN <<Head(lines)>> ELSE <<>>)
         \o NonBlank(Tail(lines))

Returned(q) == [status |-> "ok", routes |-> [i \in DOMAIN q |-> q[i].id]]
Raised == [status |-> "error", routes |-> <<>>]

\* The plain JSON branch: json.loads(raw), then the shape of the value.
LoadWhole(r) ==
    LET data == JsonLoads(r) IN
    IF ~data.ok THEN Raised
    ELSE IF data.val.k = "dict" THEN Returned(<<data.val>>)
    ELSE IF data.val.k = "list" THEN Returned(SelectDicts(data.val.items))
    ELSE Raised

\* A JSON Lines branch that returns whatever the lines parse to.
LinesAcceptedAnyValue(parsedLines) ==
    \A i \in DOMAIN parsedLines : parsedLines[i].ok

\* Whether the JSON Lines branch returns: every line parsed (no exception)
\* and every parsed value is a dict.
LinesAccepted(parsedLines) ==
    \A i \in DOMAIN parsedLines : parsedLines[i].ok /\ parsedLines[i].val.k = "dict"

load_routes(text) ==
    LET r == StripText(text) IN
    IF r = <<>> THEN Returned(<<>>)
    ELSE IF (\E i \in DOMAIN r : r[i] = "NL") /\ Head(r) \in {"D1", "D2", "{"}
    THEN LET lines == NonBlank(SplitLines(r, <<>>, <<>>))
             parsedLines == [i \in DOMAIN lines |-> JsonLoads(lines[i])]
         IN IF LinesAccepted(parsedLines)
            THEN Returned([i \in DOMAIN parsedLines |-> parsedLines[i].val])
            ELSE LoadWhole(r)
    ELSE LoadWhole(r)

\* Longer texts: sequences of two and three elements, with a number or a
\* nested sequence among the mappings and written over several lines; three
\* objects line by line with a blank line; lines that are not all mappings.
LongTexts ==
    {<<"[", "D2", ",", "N", ",", "D1", "]">>,
     <<"[", "D2", ",", "D1", "]">>,
     <<"[", "N", ",", "D1", "]">>,
     <<"[", "[", "D1", "]", ",", "D2", "]">>,
     <<"[", "NL", "D1", ",", "NL", "D2", "NL", "]">>,
     <<"D2", "NL", "NL", "D1", "NL", "D1">>,
     <<"NL", "D1", "NL", "D2", "NL", "NL">>,
     <<"D1", "NL", "[", "D2", "]">>,
     <<"{", "NL", "}", "NL", "D1">>,
     <<"D1", "NL", "D2", "NL", "N">>}

LoadInit ==
    /\ pc = "load"
    /\ \/ \E n \in 0..MaxText : raw \in [1..n -> Tokens]
       \/ raw \in LongTexts
    /\ docs = <<>>
    /\ loaded = NoLoad
    /\ ReducerIdle /\ AssemblerIdle /\ MainIdle

\* load_routes(path)
LoadRoutes ==
    /\ pc = "load"
    /\ loaded' = load_routes(raw)
    /\ pc' = IF loaded'.status = "ok" THEN "loaded" ELSE "raised"
    /\ UNCHANGED <<raw, docs, reducerVars, assemblerVars, mainVars>>

LoadNext == LoadRoutes

SpecLoad == LoadInit /\ [][LoadNext]_vars

----------------------------------------------------------------------------
(* Claim about the loader.                                                 *)

TextLines == NonBlank(SplitLines(StripText(raw), <<>>, <<>>))

EveryLineIsMapping ==
    \A i \in DOMAIN TextLines :
        JsonLoads(TextLines[i]).ok /\ JsonLoads(TextLines[i]).val.k = "dict"

LineMappings == [i \in DOMAIN TextLines |-> JsonLoads(TextLines[i]).val.id]

\* Whether q is a subsequence of r picked by a strictly increasing index map.
IsOrderedSelection(q, r, keep(_)) ==
    \E f \in [DOMAIN q -> DOMAIN r] :
        /\ \A i \in DOMAIN q : \A j \in DOMAIN q : i < j => f[i] < f[j]
        /\ \A i \in DOMAIN q : q[i] = r[f[i]].id
        /\ \A j \in DOMAIN r : keep(r[j]) <=> \E i \in DOMAIN q : f[i] = j

IsMapping(v) == v.k = "dict"

\* The whole text parsed as one document, by the policy.
WholeDocumentPolicy ==
    LET d == JsonLoads(StripText(raw)) IN
    IF ~d.ok THEN loaded.status = "error"
    ELSE IF d.val.k = "dict"
         THEN loaded.status = "ok" /\ loaded.routes = <<d.val.id>>
    ELSE IF d.val.k = "list"
         THEN loaded.status = "ok"
              /\ Len(loaded.routes) <= Len(d.val.items)
              /\ IsOrderedSelection(loaded.routes, d.val.items, IsMapping)
    ELSE loaded.status = "error"

\* C10: empty or blank text gives the empty sequence; the line by line parse
\* is accepted only when every non-blank line is a mapping, and gives those
\* mappings in order; otherwise the text is parsed as one document: a mapping
\* gives that mapping alone, a sequence its mappings in their order, anything
\* else is an error.
C10_LoaderPolicy ==
    loaded.status # "pending" =>
        IF StripText(raw) = <<>>
        THEN loaded.status = "ok" /\ loaded.routes = <<>>
        ELSE \/ /\ EveryLineIsMapping
                /\ loaded.status = "ok"
                /\ loaded.routes = LineMappings
             \/ WholeDocumentPolicy

\* A sequence document whose non-mapping element is dropped, order kept.
C10_Witness ==
    /\ raw = <<"[", "D2", ",", "N", ",", "D1", "]">>
    /\ loaded.status = "ok"
    /\ loaded.routes = <<2, 1>>

----------------------------------------------------------------------------
(* main and save_csvs.  An artifact is absent, full, or partial: opened and *)
(* left with the rows written before an exception.                         *)

sLone == <<55296>>               \* "\ud800", a lone surrogate (valid in JSON)

\* Whether str.encode("utf-8") accepts the string: no surrogate code point.
Utf8Encodable(s) == \A i \in DOMAIN s : s[i] \notin 55296..57343

\* {} as a route: a mapping without type, smiles, name or children.
EmptyDict == Node(TRUE, "none", None, None, None, <<>>)

\* The mapping an object of the text parses to.
DocOf(id) == IF id = 0 THEN EmptyDict ELSE docs[id]

\* The objects D1 and D2 can stand for.
MainDocs ==
    {RouteA, RouteB,
     Labelled(Label("mol", Str(sLone), None, None), <<>>),
     Labelled(Label("mol", Str(sCC), Str(sLone), None),
         <<Labelled(Label("mol", Str(sCCO), None, None), <<>>)>>)}

\* Input texts: empty, blank, one object, objects line by line, an object over
\* two lines, sequences with and without mappings, and malformed documents.
MainTexts ==
    {<<>>, <<"NL">>, <<"D1">>, <<"D1", "NL", "D2">>, <<"D2", "NL", "NL", "D1">>,
     <<"{", "NL", "}">>, <<"[", "D1", ",", "D2", "]">>, <<"[", "N", ",", "D1", "]">>,
     <<"[", "]">>, <<"[", "N", "]">>, <<"N">>, <<"D1", "NL", "N">>, <<"[", "D1">>,
     <<"D1", "D2">>}

MainInit ==
    /\ pc = "main"
    /\ raw \in MainTexts
    /\ docs \in [1..2 -> MainDocs]
    /\ loaded = NoLoad
    /\ routes = <<>>
    /\ runs = <<>>
    /\ ReducerIdle /\ MainIdle

\* routes = load_routes(input_path); if not routes: raise SystemExit
MainLoad ==
    /\ pc = "main"
    /\ loaded' = load_routes(raw)
    /\ IF loaded'.status = "error"
       THEN pc' = "raised" /\ routes' = routes
       ELSE IF loaded'.routes = <<>>
       THEN pc' = "exit" /\ routes' = routes
       ELSE /\ pc' = "build"
            /\ routes' = [i \in DOMAIN loaded'.routes |-> DocOf(loaded'.routes[i])]
    /\ UNCHANGED <<raw, docs, runs, reducerVars, mainVars>>

\* hyperedge_index, id_to_mol, routes_meta = build_hypergraph_per_route(routes)
MainBuild ==
    /\ pc = "build"
    /\ \E iter \in IterOrders(routes) :
          result' = build_hypergraph_per_route(routes, iter)
    /\ pc' = "torch_save"
    /\ UNCHANGED <<files, assemblerVars, loaderVars, reducerVars>>

\* torch.save({...}, out_pt): pickle writes any str, lone surrogates included
MainTorchSave ==
    /\ pc = "torch_save"
    /\ files' = [files EXCEPT !["bundle"] = "full"]
    /\ pc' = "csv_nodes"
    /\ UNCHANGED <<result, assemblerVars, loaderVars, reducerVars>>

\* A csv file opened with encoding="utf-8" and the rows holding the strings
\* written to it: the first string that cannot be encoded raises.
WriteCsv(artifact, strings, next) ==
    IF \A s \in strings : Utf8Encodable(s)
    THEN files' = [files EXCEPT ![artifact] = "full"] /\ pc' = next
    ELSE files' = [files EXCEPT ![artifact] = "partial"] /\ pc' = "raised"

\* save_csvs: the nodes table
SaveCsvNodes ==
    /\ pc = "csv_nodes"
    /\ WriteCsv("nodes", Range(result.id_to_mol), "csv_edges")
    /\ UNCHANGED <<result, assemblerVars, loaderVars, reducerVars>>

\* save_csvs: the edges table
SaveCsvEdges ==
    /\ pc = "csv_edges"
    /\ WriteCsv("edges",
                {result.routes_meta[i].edge_name : i \in DOMAIN result.routes_meta}
                \cup {result.routes_meta[i].target : i \in DOMAIN result.routes_meta},
                "csv_incidence")
    /\ UNCHANGED <<result, assemblerVars, loaderVars, reducerVars>>

\* save_csvs: the incidence table; then main prints and returns
SaveCsvIncidence ==
    /\ pc = "csv_incidence"
    /\ WriteCsv("incidence",
                {result.id_to_mol[result.top[k] + 1] : k \in DOMAIN result.top}
                \cup {result.routes_meta[result.bot[k] + 1].edge_name : k \in DOMAIN result.bot}
                \cup {result.routes_meta[result.bot[k] + 1].target : k \in DOMAIN result.bot},
                "done")
    /\ UNCHANGED <<result, assemblerVars, loaderVars, reducerVars>>

MainNext ==
    \/ MainLoad
    \/ MainBuild
    \/ MainTorchSave
    \/ SaveCsvNodes
    \/ SaveCsvEdges
    \/ SaveCsvIncidence

SpecMain == MainInit /\ [][MainNext]_vars

----------------------------------------------------------------------------
(* Claim about main.                                                       *)

MainEnded == pc \in {"done", "raised", "exit"}

\* C7: a run of main ends with all four artifacts written or with none of
\* them; a malformed document and an input of zero routes end with none.
C7_AllOrNothing ==
    MainEnded =>
        /\ \/ \A a \in Artifacts : files[a] = "full"
           \/ \A a \in Artifacts : files[a] = "absent"
        /\ (loaded.status = "error" \/ loaded.routes = <<>>) =>
              \A a \in Artifacts : files[a] = "absent"

=============================================================================
